---- MODULE Spec2Model ----
(***************************************************************************)
(* Workspace ownership service of FormSG                                   *)
(* (src/app/modules/workspace/workspace.service.ts).                       *)
(*                                                                         *)
(* The committed document store holds Workspace documents (admin, title,   *)
(* formIds) and the status of Form documents.  Every service call runs in  *)
(* a call slot; a call that awaits several store calls is a sequence of    *)
(* steps, one per awaited store call, so that calls interleave exactly at  *)
(* the await points.  Writes made with a session are staged in the         *)
(* transaction of that call and reach the committed store at commit.       *)
(***************************************************************************)
EXTENDS Integers, Sequences, FiniteSets, TLC

\* ------------------------------------------------------------------ bounds
\* Total number of service calls started in one behaviour.
MaxCalls == 2

\* ---------------------------------------------------------------- universe
Users == {"u1", "u2"}
\* Identifiers the store hands out to new workspaces, in allocation order.
WsOrder == <<"w1", "w2", "w3">>
WsIds == {WsOrder[i] : i \in 1..Len(WsOrder)}
FormIds == {"f1", "f2"}
Titles == {"t1", "t2"}
\* formIds arguments of moveForms.
FormIdLists == {<<"f1">>, <<"f1", "f2">>}
Slots == {1, 2}

\* ---------------------------------------------------------------- helpers
SeqToSet(s) == {s[i] : i \in 1..Len(s)}

Occurrences(s, x) == Cardinality({i \in 1..Len(s) : s[i] = x})

NoDuplicates(s) == \A i, j \in 1..Len(s) : s[i] = s[j] => i = j

\* ------------------------------------------------------------------- state
VARIABLES
    ws,         \* committed Workspace collection: WsIds -> document
    status,     \* committed Form collection: FormIds -> status
    allocated,  \* number of workspace identifiers handed out so far
    started,    \* number of service calls started so far
    pc,         \* per call slot: the store call the call is waiting for
    args,       \* per call slot: the arguments of the call
    session,    \* per call slot: the ClientSession of the call
    tx,         \* per call slot: the transaction of the session
    workspaceToDelete, \* per call slot: local of deleteWorkspaceTransaction
    result,     \* per call slot: the ResultAsync the call resolved to
    failedAt,   \* per call slot: the store call that rejected, if any
    committed,  \* per call slot: whether the call's transaction committed
    before      \* per call slot: the committed store when the call started

vars == <<ws, status, allocated, started, pc, args, session, tx,
          workspaceToDelete, result, failedAt, committed, before>>

\* A Workspace document; NoDoc stands for null / no document.
NoDoc == [exists |-> FALSE, id |-> "", admin |-> "", title |-> "", formIds |-> <<>>]

Doc(w, admin, title, formIds) ==
    [exists |-> TRUE, id |-> w, admin |-> admin, title |-> title, formIds |-> formIds]

EmptyWs == [w \in WsIds |-> NoDoc]

InitStatus == [f \in FormIds |-> "PRIVATE"]

NoTx == [active |-> FALSE, ws |-> EmptyWs, status |-> InitStatus,
         wWs |-> {}, wForms |-> {}, staleWs |-> {}, staleForms |-> {}]

NoArgs == [op |-> "none", revision |-> "", userId |-> "", workspaceId |-> "",
           title |-> "", shouldDeleteForms |-> FALSE, sourceWorkspaceId |-> "",
           destWorkspaceId |-> "", formIds |-> <<>>]

\* What a call delivered: kind "ok" or "err" for a ResultAsync resolved to an
\* Ok or an Err, "thrown" for a rejection that reaches the caller.
\* cause is the error the store rejected with, count the number a call
\* resolved to.
NoResult ==
    [kind |-> "none", error |-> "", payload |-> "", doc |-> NoDoc, list |-> {},
     cause |-> "", count |-> 0]

Ok(payload, doc, list) ==
    [kind |-> "ok", error |-> "", payload |-> payload, doc |-> doc, list |-> list,
     cause |-> "", count |-> 0]

Err(e) ==
    [kind |-> "err", error |-> e, payload |-> "", doc |-> NoDoc, list |-> {},
     cause |-> "", count |-> 0]

Thrown(e) ==
    [kind |-> "thrown", error |-> e, payload |-> "", doc |-> NoDoc, list |-> {},
     cause |-> "", count |-> 0]

NoStore == [ws |-> EmptyWs, status |-> InitStatus]

\* ------------------------------------------------------- error translation
\* Errors a store call can reject with.
StoreErrors == {"Error"}
\* createWorkspace and updateWorkspaceTitle run the schema validators.
ValidatedStoreErrors == {"Error", "ValidationError"}

transformMongoError(e) ==
    IF e = "ValidationError" THEN "DatabaseValidationError" ELSE "DatabaseError"

\* The two revisions of the transactional deleteWorkspace.
DeleteRevisions == {"mapperTransforms", "bodyTransforms"}

\* An error callback that makes a DatabaseError of whatever it is given.
\* C18 fails of it.
ErrorMapperGeneric(a, e) == "DatabaseError"

\* The error callback handed to ResultAsync.fromPromise.
ErrorMapper(a, e) ==
    IF a.op = "deleteWorkspace" /\ a.revision = "bodyTransforms"
    THEN e
    ELSE transformMongoError(e)

\* A promise chain with no error callback: the rejection reaches the caller.
\* C9 fails of a service built on it.
fromPromiseUnhandled(a, e) == Thrown(ErrorMapper(a, e))

\* ResultAsync.fromPromise(promise, errorFn) when the promise rejects with e.
fromPromiseRejected(a, e) == [Err(ErrorMapper(a, e)) EXCEPT !.cause = e]

\* What the transaction body rethrows for a store error e at step `step`.
BodyThrows(a, step, e) ==
    IF a.op = "deleteWorkspace" /\ a.revision = "bodyTransforms"
       /\ step \in {"deleteWorkspace", "archiveForms"}
    THEN transformMongoError(e)
    ELSE e

\* ------------------------------------------------- document store contract
\* A filter on _id alone, which matches a workspace whoever its admin is.
\* C20 fails of it.
MatchesAnyAdmin(wsv, w, admin) == w \in WsIds /\ wsv[w].exists

Matches(wsv, w, admin) == w \in WsIds /\ wsv[w].exists /\ wsv[w].admin = admin

findOne(wsv, workspaceId, admin) ==
    IF Matches(wsv, workspaceId, admin) THEN wsv[workspaceId] ELSE NoDoc

exists(wsv, workspaceId) == workspaceId \in WsIds /\ wsv[workspaceId].exists

getWorkspace(wsv, workspaceId, admin) == findOne(wsv, workspaceId, admin)

getWorkspacesOf(wsv, admin) ==
    {wsv[w] : w \in {x \in WsIds : Matches(wsv, x, admin)}}

PullAll(s, ids) == SelectSeq(s, LAMBDA x : x \notin SeqToSet(ids))

RECURSIVE AddToSet(_, _)
AddToSet(s, ids) ==
    IF ids = <<>> THEN s
    ELSE AddToSet(IF Head(ids) \in SeqToSet(s) THEN s ELSE Append(s, Head(ids)),
                  Tail(ids))

deleteWorkspaceDoc(wsv, workspaceId, admin) ==
    [w \in WsIds |->
        IF w = workspaceId /\ Matches(wsv, w, admin) THEN NoDoc ELSE wsv[w]]

removeFormIdsFromWorkspace(wsv, admin, workspaceId, formIds) ==
    [w \in WsIds |->
        IF w = workspaceId /\ Matches(wsv, w, admin)
        THEN [wsv[w] EXCEPT !.formIds = PullAll(@, formIds)]
        ELSE wsv[w]]

removeFormIdsFromAllWorkspaces(wsv, admin, formIds) ==
    [w \in WsIds |->
        IF Matches(wsv, w, admin)
        THEN [wsv[w] EXCEPT !.formIds = PullAll(@, formIds)]
        ELSE wsv[w]]

addFormIdsToWorkspace(wsv, admin, workspaceId, formIds) ==
    [w \in WsIds |->
        IF w = workspaceId /\ Matches(wsv, w, admin)
        THEN [wsv[w] EXCEPT !.formIds = AddToSet(@, formIds)]
        ELSE wsv[w]]

\* An archival that flips the status of each form it is given, so that an
\* archived form comes back.  C22 fails of it.
archiveFormsFlipping(stv, formIds) ==
    [f \in FormIds |->
        IF f \in SeqToSet(formIds)
        THEN IF stv[f] = "ARCHIVED" THEN "PRIVATE" ELSE "ARCHIVED"
        ELSE stv[f]]

archiveForms(stv, formIds) ==
    [f \in FormIds |-> IF f \in SeqToSet(formIds) THEN "ARCHIVED" ELSE stv[f]]

\* The removal from all workspaces of the admin, whatever source is named.
\* C29 fails of it.
removeStepFromAll(wsv, a) ==
    removeFormIdsFromAllWorkspaces(wsv, a.userId, a.formIds)

\* The removal without the branch on the empty sourceWorkspaceId: the empty
\* string names no workspace.  C5 fails of it.
removeStepNamedOnly(wsv, a) ==
    removeFormIdsFromWorkspace(wsv, a.userId, a.sourceWorkspaceId, a.formIds)

\* moveFormsTransaction: the removal from the source workspace, or from all
\* workspaces of the admin when sourceWorkspaceId is the empty string.
removeStep(wsv, a) ==
    IF a.sourceWorkspaceId = ""
    THEN removeFormIdsFromAllWorkspaces(wsv, a.userId, a.formIds)
    ELSE removeFormIdsFromWorkspace(wsv, a.userId, a.sourceWorkspaceId, a.formIds)

\* An addition that adds nothing: after the removal the destination no
\* longer lists the form ids.  C30 fails of it.
addStepSkipped(wsv, a) == wsv

\* The addition as a push of the given list onto the destination's list.
\* C7 fails of it.
addStepPush(wsv, a) ==
    [w \in WsIds |->
        IF Matches(wsv, w, a.userId) /\ w = a.destWorkspaceId
        THEN [wsv[w] EXCEPT !.formIds = @ \o a.formIds]
        ELSE wsv[w]]

\* moveFormsTransaction: the addition to the destination workspace.
addStep(wsv, a) ==
    addFormIdsToWorkspace(wsv, a.userId, a.destWorkspaceId, a.formIds)

\* The whole body of moveFormsTransaction on one view of the collection.
moveFormsTransaction(wsv, a) == addStep(removeStep(wsv, a), a)

\* Documents on which two views differ.
ChangedWs(a, b) == {w \in WsIds : a[w] # b[w]}
ChangedForms(a, b) == {f \in FormIds : a[f] # b[f]}

\* ------------------------------------------------------------ transactions
Others(c) == Slots \ {c}

\* The transaction of call c as seen by its next store call made with the
\* session: the snapshot is taken by the first such call.
TxView(c) ==
    IF tx[c].active THEN tx[c]
    ELSE [active |-> TRUE, ws |-> ws, status |-> status,
          wWs |-> {}, wForms |-> {}, staleWs |-> {}, staleForms |-> {}]

\* Documents written by transactions still open in other calls.
LockedWs(c) == UNION {tx[d].wWs : d \in Others(c)}
LockedForms(c) == UNION {tx[d].wForms : d \in Others(c)}

\* The committed store changed documents W and F: every other open
\* transaction has them modified after its snapshot.
MarkStale(txf, c, W, F) ==
    [d \in Slots |->
        IF d # c /\ txf[d].active
        THEN [txf[d] EXCEPT !.staleWs = @ \cup W, !.staleForms = @ \cup F]
        ELSE txf[d]]

\* One store call of deleteWorkspaceTransaction or moveFormsTransaction: the view
\* of call c's transaction after the store call it is waiting for.
StepView(c) ==
    LET v == TxView(c)
        a == args[c]
    IN  CASE pc[c] = "deleteWorkspace" ->
                [v EXCEPT !.ws = deleteWorkspaceDoc(v.ws, a.workspaceId, a.userId)]
          [] pc[c] = "archiveForms" ->
                [v EXCEPT !.status = archiveForms(v.status, workspaceToDelete[c].formIds)]
          [] pc[c] = "removeFormIds" -> [v EXCEPT !.ws = removeStep(v.ws, a)]
          [] pc[c] = "addFormIds" -> [v EXCEPT !.ws = addStep(v.ws, a)]
          [] OTHER -> v

WriteSteps == {"deleteWorkspace", "archiveForms", "removeFormIds", "addFormIds"}

\* The store call call c waits for writes a document that a concurrent
\* transaction wrote: the store rejects it with a WriteConflict.
Conflicts(c) ==
    LET v == TxView(c)
        n == StepView(c)
    IN  \/ ChangedWs(v.ws, n.ws) \cap (v.staleWs \cup LockedWs(c)) # {}
        \/ ChangedForms(v.status, n.status) \cap (v.staleForms \cup LockedForms(c)) # {}

\* A transaction body that deletes the workspace and never archives.
\* C4 fails of it.
NextStepWithoutArchive(c, step, found) ==
    CASE step = "findOne" -> "deleteWorkspace"
      [] step = "deleteWorkspace" -> "commit"
      [] step = "archiveForms" -> "commit"
      [] step = "removeFormIds" -> "addFormIds"
      [] step = "addFormIds" -> "commit"

\* A transaction body that archives the forms of the workspace it found,
\* whatever shouldDeleteForms is.  C13 fails of it.
NextStepAlwaysArchive(c, step, found) ==
    CASE step = "findOne" -> "deleteWorkspace"
      [] step = "deleteWorkspace" -> IF found.exists THEN "archiveForms" ELSE "commit"
      [] step = "archiveForms" -> "commit"
      [] step = "removeFormIds" -> "addFormIds"
      [] step = "addFormIds" -> "commit"

\* A transaction body that archives the forms before it deletes the
\* workspace.  C23 fails of it.
NextStepArchiveFirst(c, step, found) ==
    CASE step = "findOne" -> "archiveForms"
      [] step = "archiveForms" -> "deleteWorkspace"
      [] step = "deleteWorkspace" -> "commit"
      [] step = "removeFormIds" -> "addFormIds"
      [] step = "addFormIds" -> "commit"

\* The step after `step` in the transaction body of call c.
NextStep(c, step, found) ==
    CASE step = "findOne" -> "deleteWorkspace"
      [] step = "deleteWorkspace" ->
            IF args[c].shouldDeleteForms /\ found.exists
            THEN "archiveForms" ELSE "commit"
      [] step = "archiveForms" -> "commit"
      [] step = "removeFormIds" -> "addFormIds"
      [] step = "addFormIds" -> "commit"

FirstBodyStep(a) == IF a.op = "deleteWorkspace" THEN "findOne" ELSE "removeFormIds"

\* --------------------------------------------------------------- the calls
CanStart(c) == pc[c] \in {"idle", "done"} /\ started < MaxCalls

\* A call that makes a single store call resolves in one step.
Resolve(c, a, r, failed) ==
    /\ started' = started + 1
    /\ pc' = [pc EXCEPT ![c] = "done"]
    /\ args' = [args EXCEPT ![c] = a]
    /\ result' = [result EXCEPT ![c] = r]
    /\ failedAt' = [failedAt EXCEPT ![c] = failed]
    /\ committed' = [committed EXCEPT ![c] = FALSE]
    /\ session' = [session EXCEPT ![c] = "none"]
    /\ workspaceToDelete' = [workspaceToDelete EXCEPT ![c] = NoDoc]
    /\ before' = [before EXCEPT ![c] = [ws |-> ws, status |-> status]]

\* The list of every workspace, whoever its admin is.  C16 fails of it.
GetWorkspacesOfEveryone(c, userId) ==
    /\ CanStart(c)
    /\ \E e \in StoreErrors \cup {"none"} :
        LET a == [NoArgs EXCEPT !.op = "getWorkspaces", !.userId = userId]
        IN  IF e = "none"
            THEN Resolve(c, a, Ok("list", NoDoc, {ws[w] : w \in {x \in WsIds : ws[x].exists}}),
                         "none")
            ELSE Resolve(c, a, fromPromiseRejected(a, e), "getWorkspaces")
    /\ UNCHANGED <<ws, status, allocated, tx>>

GetWorkspaces(c, userId) ==
    /\ CanStart(c)
    /\ \E e \in StoreErrors \cup {"none"} :
        LET a == [NoArgs EXCEPT !.op = "getWorkspaces", !.userId = userId]
        IN  IF e = "none"
            THEN Resolve(c, a, Ok("list", NoDoc, getWorkspacesOf(ws, userId)), "none")
            ELSE Resolve(c, a, fromPromiseRejected(a, e), "getWorkspaces")
    /\ UNCHANGED <<ws, status, allocated, tx>>

CreateWorkspace(c, userId, title) ==
    /\ CanStart(c)
    /\ \E e \in ValidatedStoreErrors \cup {"none"} :
        LET a == [NoArgs EXCEPT !.op = "createWorkspace", !.userId = userId,
                                !.title = title]
        IN  IF e = "none"
            THEN /\ allocated < Len(WsOrder)
                 /\ LET w == WsOrder[allocated + 1]
                    IN  /\ ws' = [ws EXCEPT ![w] = Doc(w, userId, title, <<>>)]
                        /\ Resolve(c, a, Ok("doc", Doc(w, userId, title, <<>>), {}), "none")
                 /\ allocated' = allocated + 1
            ELSE /\ Resolve(c, a, fromPromiseRejected(a, e), "createWorkspace")
                 /\ UNCHANGED <<ws, allocated>>
    /\ UNCHANGED <<status, tx>>

\* An update matched by _id alone that makes the caller the admin of the
\* document.  C21 fails of it.
updateWorkspaceTitleTakingOver(wsv, workspaceId, title, userId) ==
    IF exists(wsv, workspaceId)
    THEN Ok("doc", [wsv[workspaceId] EXCEPT !.title = title, !.admin = userId], {})
    ELSE Err("WorkspaceNotFoundError")

\* What updateWorkspaceTitle resolves to on collection wsv when the store call
\* does not reject: the updated document, or the fault for a null.
updateWorkspaceTitle(wsv, workspaceId, title, userId) ==
    LET found == findOne(wsv, workspaceId, userId)
    IN  IF found.exists
        THEN Ok("doc", [found EXCEPT !.title = title], {})
        ELSE Err("WorkspaceNotFoundError")

\* The update matched by _id alone, without the admin.  C11 fails of it.
UpdateWorkspaceTitleById(c, workspaceId, title, userId) ==
    /\ CanStart(c)
    /\ \E e \in ValidatedStoreErrors \cup {"none"} :
        LET a == [NoArgs EXCEPT !.op = "updateWorkspaceTitle", !.userId = userId,
                                !.workspaceId = workspaceId, !.title = title]
            updated == [ws[workspaceId] EXCEPT !.title = title]
        IN  IF e # "none"
            THEN /\ Resolve(c, a, fromPromiseRejected(a, e), "updateWorkspaceTitle")
                 /\ UNCHANGED <<ws, tx>>
            ELSE IF exists(ws, workspaceId)
            THEN /\ workspaceId \notin LockedWs(c)
                 /\ ws' = [ws EXCEPT ![workspaceId] = updated]
                 /\ tx' = MarkStale(tx, c, ChangedWs(ws, ws'), {})
                 /\ Resolve(c, a, Ok("doc", updated, {}), "none")
            ELSE /\ Resolve(c, a, Err("WorkspaceNotFoundError"), "none")
                 /\ UNCHANGED <<ws, tx>>
    /\ UNCHANGED <<status, allocated>>

UpdateWorkspaceTitle(c, workspaceId, title, userId) ==
    /\ CanStart(c)
    /\ \E e \in ValidatedStoreErrors \cup {"none"} :
        LET a == [NoArgs EXCEPT !.op = "updateWorkspaceTitle", !.userId = userId,
                                !.workspaceId = workspaceId, !.title = title]
            r == updateWorkspaceTitle(ws, workspaceId, title, userId)
        IN  IF e # "none"
            THEN /\ Resolve(c, a, fromPromiseRejected(a, e), "updateWorkspaceTitle")
                 /\ UNCHANGED <<ws, tx>>
            ELSE IF r.kind = "ok"
            THEN /\ workspaceId \notin LockedWs(c)
                 /\ ws' = [ws EXCEPT ![workspaceId] = r.doc]
                 /\ tx' = MarkStale(tx, c, ChangedWs(ws, ws'), {})
                 /\ Resolve(c, a, r, "none")
            ELSE /\ Resolve(c, a, r, "none")
                 /\ UNCHANGED <<ws, tx>>
    /\ UNCHANGED <<status, allocated>>

\* A check that tells a workspace of another admin from a missing one.
\* C19 fails of it.
verifyWorkspaceAdminTelling(wsv, workspaceId, userId) ==
    IF findOne(wsv, workspaceId, userId).exists
    THEN Ok("true", NoDoc, {})
    ELSE IF exists(wsv, workspaceId)
    THEN Err("ForbiddenWorkspaceError")
    ELSE Err("WorkspaceNotFoundError")

\* What verifyWorkspaceAdmin resolves to on collection wsv when the store call
\* does not reject.
verifyWorkspaceAdmin(wsv, workspaceId, userId) ==
    IF findOne(wsv, workspaceId, userId).exists
    THEN Ok("true", NoDoc, {})
    ELSE Err("ForbiddenWorkspaceError")

\* The lookup by _id alone, without the admin.  C10 fails of it.
VerifyWorkspaceExistsOnly(c, workspaceId, userId) ==
    /\ CanStart(c)
    /\ \E e \in StoreErrors \cup {"none"} :
        LET a == [NoArgs EXCEPT !.op = "verifyWorkspaceAdmin", !.userId = userId,
                                !.workspaceId = workspaceId]
        IN  IF e # "none"
            THEN Resolve(c, a, fromPromiseRejected(a, e), "exists")
            ELSE IF exists(ws, workspaceId)
            THEN Resolve(c, a, Ok("true", NoDoc, {}), "none")
            ELSE Resolve(c, a, Err("ForbiddenWorkspaceError"), "none")
    /\ UNCHANGED <<ws, status, allocated, tx>>

VerifyWorkspaceAdmin(c, workspaceId, userId) ==
    /\ CanStart(c)
    /\ \E e \in StoreErrors \cup {"none"} :
        LET a == [NoArgs EXCEPT !.op = "verifyWorkspaceAdmin", !.userId = userId,
                                !.workspaceId = workspaceId]
        IN  IF e # "none"
            THEN Resolve(c, a, fromPromiseRejected(a, e), "exists")
            ELSE Resolve(c, a, verifyWorkspaceAdmin(ws, workspaceId, userId), "none")
    /\ UNCHANGED <<ws, status, allocated, tx>>

\* The check with the fault of verifyWorkspaceAdmin in place of its own.
\* C17 fails of it.
CheckWorkspaceExistsForbidden(c, workspaceId) ==
    /\ CanStart(c)
    /\ \E e \in StoreErrors \cup {"none"} :
        LET a == [NoArgs EXCEPT !.op = "checkWorkspaceExists",
                                !.workspaceId = workspaceId]
        IN  IF e # "none"
            THEN Resolve(c, a, fromPromiseRejected(a, e), "exists")
            ELSE IF exists(ws, workspaceId)
            THEN Resolve(c, a, Ok("true", NoDoc, {}), "none")
            ELSE Resolve(c, a, Err("ForbiddenWorkspaceError"), "none")
    /\ UNCHANGED <<ws, status, allocated, tx>>

CheckWorkspaceExists(c, workspaceId) ==
    /\ CanStart(c)
    /\ \E e \in StoreErrors \cup {"none"} :
        LET a == [NoArgs EXCEPT !.op = "checkWorkspaceExists",
                                !.workspaceId = workspaceId]
        IN  IF e # "none"
            THEN Resolve(c, a, fromPromiseRejected(a, e), "exists")
            ELSE IF exists(ws, workspaceId)
            THEN Resolve(c, a, Ok("true", NoDoc, {}), "none")
            ELSE Resolve(c, a, Err("WorkspaceNotFoundError"), "none")
    /\ UNCHANGED <<ws, status, allocated, tx>>

\* The count-based store call deleteWorkspace(workspaceId, admin,
\* shouldDeleteForms): the number of documents it removes.
numDeleted(wsv, workspaceId, admin) ==
    Cardinality({w \in WsIds : w = workspaceId /\ Matches(wsv, w, admin)})

OkCount(n) == [Ok("number", NoDoc, {}) EXCEPT !.count = n]

\* A count passed on as it is, zero included.  C15 fails of it.
numDeletedAlwaysOk(n) == OkCount(n)

\* The count-based deleteWorkspace: what the number of removed documents is
\* turned into.
numDeletedResult(n) ==
    IF n = 0 THEN Err("WorkspaceNotFoundError") ELSE OkCount(n)

\* The count-based deleteWorkspace: one store call, which removes the
\* matching document and, when asked to, its forms with it.
DeleteWorkspaceCounted(c, workspaceId, userId, shouldDeleteForms) ==
    /\ CanStart(c)
    /\ \E e \in StoreErrors \cup {"none"} :
        LET a == [NoArgs EXCEPT !.op = "deleteWorkspaceCount", !.userId = userId,
                                !.workspaceId = workspaceId,
                                !.shouldDeleteForms = shouldDeleteForms]
            found == findOne(ws, workspaceId, userId)
        IN  IF e # "none"
            THEN /\ Resolve(c, a, fromPromiseRejected(a, e), "deleteWorkspace")
                 /\ UNCHANGED <<ws, status, tx>>
            ELSE /\ ws' = deleteWorkspaceDoc(ws, workspaceId, userId)
                 /\ status' = IF shouldDeleteForms
                              THEN archiveForms(status, found.formIds)
                              ELSE status
                 /\ ChangedWs(ws, ws') \cap LockedWs(c) = {}
                 /\ ChangedForms(status, status') \cap LockedForms(c) = {}
                 /\ tx' = MarkStale(tx, c, ChangedWs(ws, ws'),
                                    ChangedForms(status, status'))
                 /\ Resolve(c, a,
                            numDeletedResult(numDeleted(ws, workspaceId, userId)),
                            "none")
    /\ UNCHANGED allocated

\* A transactional call starts by asking the store for a session.
Invoke(c, a) ==
    /\ CanStart(c)
    /\ started' = started + 1
    /\ pc' = [pc EXCEPT ![c] = "startSession"]
    /\ args' = [args EXCEPT ![c] = a]
    /\ result' = [result EXCEPT ![c] = NoResult]
    /\ failedAt' = [failedAt EXCEPT ![c] = "none"]
    /\ committed' = [committed EXCEPT ![c] = FALSE]
    /\ session' = [session EXCEPT ![c] = "none"]
    /\ workspaceToDelete' = [workspaceToDelete EXCEPT ![c] = NoDoc]
    /\ before' = [before EXCEPT ![c] = [ws |-> ws, status |-> status]]
    /\ UNCHANGED <<ws, status, allocated, tx>>

DeleteWorkspace(c, workspaceId, userId, shouldDeleteForms, revision) ==
    Invoke(c, [NoArgs EXCEPT !.op = "deleteWorkspace", !.revision = revision,
                             !.workspaceId = workspaceId, !.userId = userId,
                             !.shouldDeleteForms = shouldDeleteForms])

MoveForms(c, userId, sourceWorkspaceId, destWorkspaceId, formIds) ==
    Invoke(c, [NoArgs EXCEPT !.op = "moveForms", !.userId = userId,
                             !.sourceWorkspaceId = sourceWorkspaceId,
                             !.destWorkspaceId = destWorkspaceId,
                             !.formIds = formIds])

StartSession(c) ==
    /\ pc[c] = "startSession"
    /\ session' = [session EXCEPT ![c] = "open"]
    /\ pc' = [pc EXCEPT ![c] = FirstBodyStep(args[c])]
    /\ UNCHANGED <<ws, status, allocated, started, args, tx, workspaceToDelete,
                   result, failedAt, committed,
                   before>>

\* The read of the workspace by _id alone, without the admin.  C14 fails of it.
FindOneByIdOnly(c) ==
    /\ pc[c] = "findOne"
    /\ workspaceToDelete' = [workspaceToDelete EXCEPT ![c] =
            IF exists(ws, args[c].workspaceId) THEN ws[args[c].workspaceId] ELSE NoDoc]
    /\ pc' = [pc EXCEPT ![c] = NextStep(c, "findOne", NoDoc)]
    /\ UNCHANGED <<ws, status, allocated, started, args, session, tx, result,
                   failedAt, committed, before>>

\* deleteWorkspaceTransaction: the read of the workspace, made without the
\* session, sees the committed store.
FindOne(c) ==
    /\ pc[c] = "findOne"
    /\ workspaceToDelete' = [workspaceToDelete EXCEPT ![c] =
            findOne(ws, args[c].workspaceId, args[c].userId)]
    /\ pc' = [pc EXCEPT ![c] = NextStep(c, "findOne", NoDoc)]
    /\ UNCHANGED <<ws, status, allocated, started, args, session, tx, result,
                   failedAt, committed,
                   before>>

\* A store call made without the session: it writes the committed store at
\* once.  C3 fails of it.
WriteStepWithoutSession(c, step) ==
    /\ pc[c] = step
    /\ ws' = StepView(c).ws
    /\ status' = StepView(c).status
    /\ tx' = MarkStale(tx, c, ChangedWs(ws, ws'), ChangedForms(status, status'))
    /\ pc' = [pc EXCEPT ![c] = NextStep(c, step, workspaceToDelete[c])]
    /\ UNCHANGED <<allocated, started, args, session, workspaceToDelete, result,
                   failedAt, committed, before>>

\* A store call made with the session: it writes into the transaction.
WriteStep(c, step) ==
    /\ pc[c] = step
    /\ ~Conflicts(c)
    /\ LET v == TxView(c)
           n == StepView(c)
       IN  tx' = [tx EXCEPT ![c] =
                    [n EXCEPT !.wWs = @ \cup ChangedWs(v.ws, n.ws),
                              !.wForms = @ \cup ChangedForms(v.status, n.status)]]
    /\ pc' = [pc EXCEPT ![c] = NextStep(c, step, workspaceToDelete[c])]
    /\ UNCHANGED <<ws, status, allocated, started, args, session,
                   workspaceToDelete, result, failedAt, committed,
                   before>>

DeleteWorkspaceStep(c) == WriteStep(c, "deleteWorkspace")

ArchiveFormsStep(c) == WriteStep(c, "archiveForms")

RemoveFormIdsStep(c) == WriteStep(c, "removeFormIds")

AddFormIdsStep(c) == WriteStep(c, "addFormIds")

\* withTransaction: the body resolved, the transaction commits.
CommitTransaction(c) ==
    /\ pc[c] = "commit"
    /\ ws' = [w \in WsIds |-> IF w \in tx[c].wWs THEN tx[c].ws[w] ELSE ws[w]]
    /\ status' = [f \in FormIds |->
                    IF f \in tx[c].wForms THEN tx[c].status[f] ELSE status[f]]
    /\ tx' = [MarkStale(tx, c, tx[c].wWs, tx[c].wForms) EXCEPT ![c] = NoTx]
    /\ committed' = [committed EXCEPT ![c] = TRUE]
    /\ pc' = [pc EXCEPT ![c] = "endSession"]
    /\ UNCHANGED <<allocated, started, args, session, workspaceToDelete, result,
                   failedAt,
                   before>>

EndSession(c) ==
    /\ pc[c] = "endSession"
    /\ session' = [session EXCEPT ![c] = "ended"]
    /\ IF args[c].op = "moveForms"
       THEN /\ pc' = [pc EXCEPT ![c] = "getWorkspace"]
            /\ UNCHANGED result
       ELSE /\ pc' = [pc EXCEPT ![c] = "done"]
            /\ result' = [result EXCEPT ![c] = Ok("undefined", NoDoc, {})]
    /\ UNCHANGED <<ws, status, allocated, started, args, tx, workspaceToDelete,
                   failedAt, committed,
                   before>>

\* The destination as it was when the call started.  C6 fails of it.
GetWorkspaceBeforeCall(c) ==
    /\ pc[c] = "getWorkspace"
    /\ LET dest == getWorkspace(before[c].ws, args[c].destWorkspaceId, args[c].userId)
       IN  result' = [result EXCEPT ![c] =
                Ok(IF dest.exists THEN "doc" ELSE "null", dest, {})]
    /\ pc' = [pc EXCEPT ![c] = "done"]
    /\ UNCHANGED <<ws, status, allocated, started, args, session, tx,
                   workspaceToDelete, failedAt, committed, before>>

\* moveForms: the destination is read after the session has ended.
GetWorkspace(c) ==
    /\ pc[c] = "getWorkspace"
    /\ LET dest == getWorkspace(ws, args[c].destWorkspaceId, args[c].userId)
       IN  result' = [result EXCEPT ![c] =
                Ok(IF dest.exists THEN "doc" ELSE "null", dest, {})]
    /\ pc' = [pc EXCEPT ![c] = "done"]
    /\ UNCHANGED <<ws, status, allocated, started, args, session, tx,
                   workspaceToDelete, failedAt, committed,
                   before>>

\* A rejection after which the writes staged so far are kept, not aborted.
\* C2 fails of it.
RejectWithoutAbort(c, e) ==
    /\ result' = [result EXCEPT ![c] =
            fromPromiseRejected(args[c], BodyThrows(args[c], pc[c], e))]
    /\ failedAt' = [failedAt EXCEPT ![c] = pc[c]]
    /\ ws' = [w \in WsIds |-> IF w \in tx[c].wWs THEN tx[c].ws[w] ELSE ws[w]]
    /\ status' = [f \in FormIds |->
                    IF f \in tx[c].wForms THEN tx[c].status[f] ELSE status[f]]
    /\ tx' = [tx EXCEPT ![c] = NoTx]
    /\ pc' = [pc EXCEPT ![c] = "done"]
    /\ UNCHANGED <<allocated, started, args, session, workspaceToDelete,
                   committed, before>>

\* The promise chain rejects with error e at the store call the call waits
\* for: withTransaction aborts the transaction if one is open, the
\* remaining .then callbacks are skipped and the error callback of
\* ResultAsync.fromPromise makes the error result.
Reject(c, e) ==
    /\ result' = [result EXCEPT ![c] =
            fromPromiseRejected(args[c], BodyThrows(args[c], pc[c], e))]
    /\ failedAt' = [failedAt EXCEPT ![c] = pc[c]]
    /\ tx' = [tx EXCEPT ![c] = NoTx]
    /\ pc' = [pc EXCEPT ![c] = "done"]
    /\ UNCHANGED <<ws, status, allocated, started, args, session,
                   workspaceToDelete, committed,
                   before>>

AwaitedSteps == {"startSession", "findOne", "deleteWorkspace", "archiveForms",
                 "removeFormIds", "addFormIds", "commit", "endSession",
                 "getWorkspace"}

\* A transaction body that catches the rejection of the workspace deletion
\* and goes on with its next store call.  C12 fails of it.
StoreCallFailureSwallowed(c) ==
    /\ pc[c] \in AwaitedSteps
    /\ IF pc[c] = "deleteWorkspace"
       THEN /\ failedAt' = [failedAt EXCEPT ![c] = pc[c]]
            /\ pc' = [pc EXCEPT ![c] = NextStep(c, pc[c], workspaceToDelete[c])]
            /\ UNCHANGED <<ws, status, allocated, started, args, session, tx,
                           workspaceToDelete, result, committed, before>>
       ELSE \E e \in StoreErrors : Reject(c, e)

StoreCallFails(c) ==
    /\ pc[c] \in AwaitedSteps
    /\ \E e \in StoreErrors : Reject(c, e)

\* A WriteConflict carries the TransientTransactionError label:
\* withTransaction aborts and runs the body again, unless the body caught
\* the error and threw a new one in its place.
WriteConflict(c) ==
    /\ pc[c] \in WriteSteps
    /\ Conflicts(c)
    /\ IF BodyThrows(args[c], pc[c], "Error") # "Error"
       THEN Reject(c, "Error")
       ELSE /\ tx' = [tx EXCEPT ![c] = NoTx]
            /\ pc' = [pc EXCEPT ![c] = FirstBodyStep(args[c])]
            /\ UNCHANGED <<ws, status, allocated, started, args, session,
                           workspaceToDelete, result, failedAt, committed,
                   before>>

\* ----------------------------------------------------------- specification
\* Stores the service can have reached when the calls under study start.
\* Each is reached from the empty store by createWorkspace, moveForms and
\* deleteWorkspace calls.

\* Nothing created yet.
StoreEmpty == [ws |-> EmptyWs, status |-> InitStatus, allocated |-> 0]

\* One admin, a workspace holding a form and an empty one.
StoreTwo ==
    [ws |-> [EmptyWs EXCEPT !["w1"] = Doc("w1", "u1", "t1", <<"f1">>),
                            !["w2"] = Doc("w2", "u1", "t1", <<>>)],
     status |-> InitStatus, allocated |-> 2]

\* A form in two workspaces of one admin, and a workspace of another admin.
StoreShared ==
    [ws |-> [EmptyWs EXCEPT !["w1"] = Doc("w1", "u1", "t1", <<"f1", "f2">>),
                            !["w2"] = Doc("w2", "u2", "t1", <<"f1">>),
                            !["w3"] = Doc("w3", "u1", "t1", <<"f2">>)],
     status |-> InitStatus, allocated |-> 3]

\* A workspace deleted together with its form, which another still lists.
StoreArchived ==
    [ws |-> [EmptyWs EXCEPT !["w2"] = Doc("w2", "u1", "t1", <<"f2", "f1">>)],
     status |-> [InitStatus EXCEPT !["f1"] = "ARCHIVED"], allocated |-> 2]

InitStores == {StoreEmpty, StoreTwo, StoreShared, StoreArchived}

Init ==
    /\ \E s \in InitStores :
        /\ ws = s.ws
        /\ status = s.status
        /\ allocated = s.allocated
    /\ started = 0
    /\ pc = [c \in Slots |-> "idle"]
    /\ args = [c \in Slots |-> NoArgs]
    /\ session = [c \in Slots |-> "none"]
    /\ tx = [c \in Slots |-> NoTx]
    /\ workspaceToDelete = [c \in Slots |-> NoDoc]
    /\ result = [c \in Slots |-> NoResult]
    /\ failedAt = [c \in Slots |-> "none"]
    /\ committed = [c \in Slots |-> FALSE]
    /\ before = [c \in Slots |-> NoStore]

\* The start of a call in slot c, its arguments drawn from the given sets.
Start(c, U, W, T, L, R) ==
    \/ \E u \in U : GetWorkspaces(c, u)
    \/ \E u \in U, t \in T : CreateWorkspace(c, u, t)
    \/ \E w \in W, t \in T, u \in U : UpdateWorkspaceTitle(c, w, t, u)
    \/ \E w \in W, u \in U : VerifyWorkspaceAdmin(c, w, u)
    \/ \E w \in W : CheckWorkspaceExists(c, w)
    \/ \E w \in W, u \in U, s \in BOOLEAN : DeleteWorkspaceCounted(c, w, u, s)
    \/ \E w \in W, u \in U, s \in BOOLEAN, r \in R : DeleteWorkspace(c, w, u, s, r)
    \/ \E u \in U, src \in W \cup {""}, dst \in W, fl \in L :
            MoveForms(c, u, src, dst, fl)

\* The next store call of the call in slot c resolves or rejects.
Continue(c) ==
    \/ StartSession(c)
    \/ FindOne(c)
    \/ DeleteWorkspaceStep(c)
    \/ ArchiveFormsStep(c)
    \/ RemoveFormIdsStep(c)
    \/ AddFormIdsStep(c)
    \/ CommitTransaction(c)
    \/ EndSession(c)
    \/ GetWorkspace(c)
    \/ StoreCallFails(c)

\* One call at a time: the next call starts when the last has resolved.
Next ==
    \/ Start(1, Users, WsIds, Titles, FormIdLists, DeleteRevisions)
    \/ Continue(1)

Spec == Init /\ [][Next]_vars

\* Calls of one admin in two slots, interleaving at their awaits; a store
\* call of one can meet the uncommitted or newly committed writes of the other.
ConcUsers == {"u1"}
ConcWsIds == {"w1", "w2"}
ConcTitles == {"t2"}
ConcFormIdLists == {<<"f1">>}

ConcNext ==
    \E c \in Slots :
        \/ Start(c, ConcUsers, ConcWsIds, ConcTitles, ConcFormIdLists, DeleteRevisions)
        \/ Continue(c)
        \/ WriteConflict(c)

ConcSpec == Init /\ [][ConcNext]_vars

\* ------------------------------------------------------------------ claims
Done(c, op) == pc[c] = "done" /\ args[c].op = op

Succeeded(c, op) == Done(c, op) /\ result[c].kind = "ok"

Owned(wsv, w, u) == Matches(wsv, w, u)

FormsOf(doc) == SeqToSet(doc.formIds)

\* The commit of a deleteWorkspace call made with shouldDeleteForms = true.
CommitsCascade(c) ==
    /\ pc[c] = "commit"
    /\ pc'[c] = "endSession"
    /\ args[c].op = "deleteWorkspace"
    /\ args[c].shouldDeleteForms

\* C1: whenever a deleteWorkspace call with shouldDeleteForms = true changes
\* what clients can observe, every workspace that disappears has all the
\* forms it listed archived, and forms become archived only together with
\* the disappearance of the workspace, also when other calls interleave.
C1_DeleteAndArchiveAtomic ==
    [][\A c \in Slots :
        CommitsCascade(c) =>
            /\ \A w \in WsIds :
                (ws[w].exists /\ ~ws'[w].exists) =>
                    \A f \in FormsOf(ws[w]) : status'[f] = "ARCHIVED"
            /\ (status' # status) => ~exists(ws', args[c].workspaceId)]_vars

\* C2: when archiveForms rejects inside deleteWorkspace called with
\* shouldDeleteForms = true, the call resolves to an Err holding a
\* DatabaseError, the workspace still exists and the committed workspaces and
\* form statuses are those from before the call.
C2_ArchiveFailureRollsBack ==
    \A c \in Slots :
        (Done(c, "deleteWorkspace") /\ args[c].shouldDeleteForms
         /\ failedAt[c] = "archiveForms") =>
            /\ result[c].kind = "err"
            /\ result[c].error = "DatabaseError"
            /\ exists(ws, args[c].workspaceId)
            /\ ws = before[c].ws
            /\ status = before[c].status

C2_Witness ==
    \E c \in Slots :
        /\ Done(c, "deleteWorkspace")
        /\ failedAt[c] = "archiveForms"
        /\ args[c].shouldDeleteForms
        /\ workspaceToDelete[c].formIds # <<>>
        /\ \E f \in FormsOf(workspaceToDelete[c]) : status[f] # "ARCHIVED"

\* C3: when the removal or the addition rejects inside moveForms, the call
\* resolves to an Err holding a DatabaseError and every workspace has the
\* formIds it had before the call.
C3_MoveFailureRollsBack ==
    \A c \in Slots :
        (Done(c, "moveForms") /\ failedAt[c] \in {"removeFormIds", "addFormIds"}) =>
            /\ result[c].kind = "err"
            /\ result[c].error = "DatabaseError"
            /\ \A w \in WsIds : ws[w].formIds = before[c].ws[w].formIds

\* The addition rejected after a removal that took a form out of a workspace.
C3_Witness ==
    \E c \in Slots :
        /\ Done(c, "moveForms")
        /\ failedAt[c] = "addFormIds"
        /\ removeStep(before[c].ws, args[c]) # before[c].ws
        /\ ws = before[c].ws

\* C4: when deleteWorkspace with shouldDeleteForms = true succeeds for a
\* workspace owned by userId, the workspace no longer exists and every form it
\* listed before the call is archived.
C4_DeleteArchivesForms ==
    \A c \in Slots :
        (Succeeded(c, "deleteWorkspace") /\ args[c].shouldDeleteForms
         /\ Owned(before[c].ws, args[c].workspaceId, args[c].userId)) =>
            /\ ~exists(ws, args[c].workspaceId)
            /\ \A f \in FormsOf(before[c].ws[args[c].workspaceId]) :
                    status[f] = "ARCHIVED"

C4_Witness ==
    \E c \in Slots :
        /\ Succeeded(c, "deleteWorkspace")
        /\ args[c].shouldDeleteForms
        /\ Owned(before[c].ws, args[c].workspaceId, args[c].userId)
        /\ \E f \in FormsOf(before[c].ws[args[c].workspaceId]) :
                before[c].status[f] # "ARCHIVED" /\ status[f] = "ARCHIVED"

\* C5: after a successful moveForms with an empty sourceWorkspaceId to a
\* destination owned by userId, every moved form id is in the destination and
\* in no other workspace of userId, wherever it was before.
C5_MoveFromAllWorkspaces ==
    \A c \in Slots :
        (Succeeded(c, "moveForms") /\ args[c].sourceWorkspaceId = ""
         /\ Owned(before[c].ws, args[c].destWorkspaceId, args[c].userId)) =>
            \A f \in SeqToSet(args[c].formIds) :
                /\ f \in FormsOf(ws[args[c].destWorkspaceId])
                /\ \A w \in WsIds \ {args[c].destWorkspaceId} :
                        Owned(ws, w, args[c].userId) => f \notin FormsOf(ws[w])

\* Workspaces of admin u that list form f in collection wsv.
Holders(wsv, u, f) == {w \in WsIds : Owned(wsv, w, u) /\ f \in FormsOf(wsv[w])}

\* One call moved a form held by two workspaces and a form held by none.
C5_Witness ==
    \E c \in Slots :
        /\ Succeeded(c, "moveForms")
        /\ args[c].sourceWorkspaceId = ""
        /\ Owned(before[c].ws, args[c].destWorkspaceId, args[c].userId)
        /\ \E f \in SeqToSet(args[c].formIds) :
                /\ Cardinality(Holders(before[c].ws, args[c].userId, f)) = 2
                /\ Holders(ws, args[c].userId, f) = {args[c].destWorkspaceId}
        /\ \E c2 \in Slots :
                /\ Succeeded(c2, "moveForms")
                /\ args[c2].sourceWorkspaceId = ""
                /\ \E f \in SeqToSet(args[c2].formIds) :
                        /\ Holders(before[c2].ws, args[c2].userId, f) = {}
                        /\ Holders(ws, args[c2].userId, f) = {args[c2].destWorkspaceId}

\* A moveForms call from a named source to another workspace of the same admin.
NamedMove(c) ==
    /\ Succeeded(c, "moveForms")
    /\ args[c].sourceWorkspaceId \in WsIds
    /\ args[c].sourceWorkspaceId # args[c].destWorkspaceId
    /\ Owned(before[c].ws, args[c].sourceWorkspaceId, args[c].userId)
    /\ Owned(before[c].ws, args[c].destWorkspaceId, args[c].userId)

\* C6: after a successful moveForms from a named source to a different
\* destination of the same admin, no moved form id is in the source, every
\* moved form id is in the destination, and the returned workspace is the
\* destination as committed.
C6_MoveFromNamedSource ==
    \A c \in Slots :
        NamedMove(c) =>
            /\ \A f \in SeqToSet(args[c].formIds) :
                    /\ f \notin FormsOf(ws[args[c].sourceWorkspaceId])
                    /\ f \in FormsOf(ws[args[c].destWorkspaceId])
            /\ result[c].payload = "doc"
            /\ result[c].doc = ws[args[c].destWorkspaceId]

C6_Witness ==
    \E c \in Slots :
        /\ NamedMove(c)
        /\ \E f \in SeqToSet(args[c].formIds) :
                /\ f \in FormsOf(before[c].ws[args[c].sourceWorkspaceId])
                /\ f \notin FormsOf(before[c].ws[args[c].destWorkspaceId])
        /\ result[c].doc.formIds # <<>>

\* The arguments a with every form id of formIds given twice.
Repeated(a) == [a EXCEPT !.formIds = a.formIds \o a.formIds]

C8_SessionAlwaysEnded ==
    \A c \in Slots : pc[c] = "done" => session[c] # "open"

\* C9: every call delivers an Ok or an Err, and a call in which a store call
\* rejected (startSession, a call of the transaction body, the commit,
\* endSession or the read after the commit included) delivers an Err.
C9_FailuresAreErrResults ==
    \A c \in Slots :
        /\ pc[c] = "done" => result[c].kind \in {"ok", "err"}
        /\ failedAt[c] # "none" => (pc[c] = "done" /\ result[c].kind = "err")

\* The read of the destination rejected after the transaction committed.
C9_Witness ==
    \E c \in Slots :
        /\ Done(c, "moveForms")
        /\ failedAt[c] = "getWorkspace"
        /\ result[c].kind = "err"
        /\ committed[c]
        /\ ws # before[c].ws

\* C10: without a store failure verifyWorkspaceAdmin delivers Ok(true) exactly
\* when the workspace exists with admin = userId, and an Err holding a
\* ForbiddenWorkspaceError otherwise.
C10_VerifyWorkspaceAdmin ==
    \A c \in Slots :
        (Done(c, "verifyWorkspaceAdmin") /\ failedAt[c] = "none") =>
            IF Owned(ws, args[c].workspaceId, args[c].userId)
            THEN result[c].kind = "ok" /\ result[c].payload = "true"
            ELSE result[c].kind = "err" /\ result[c].error = "ForbiddenWorkspaceError"

\* The workspace exists and belongs to another admin.
C10_Witness ==
    \E c \in Slots :
        /\ Done(c, "verifyWorkspaceAdmin")
        /\ exists(ws, args[c].workspaceId)
        /\ ~Owned(ws, args[c].workspaceId, args[c].userId)
        /\ result[c].error = "ForbiddenWorkspaceError"

\* C11: updateWorkspaceTitle on a workspace id that no workspace has, or that
\* a workspace of another admin has, delivers an Err holding a
\* WorkspaceNotFoundError and leaves every workspace and form as it was.
C11_UpdateOfUnownedNotFound ==
    \A c \in Slots :
        (Done(c, "updateWorkspaceTitle") /\ failedAt[c] = "none"
         /\ ~Owned(before[c].ws, args[c].workspaceId, args[c].userId)) =>
            /\ result[c].kind = "err"
            /\ result[c].error = "WorkspaceNotFoundError"
            /\ ws = before[c].ws
            /\ status = before[c].status

\* The workspace exists under another admin and the new title differs from its title.
C11_Witness ==
    \E c \in Slots :
        /\ Done(c, "updateWorkspaceTitle")
        /\ failedAt[c] = "none"
        /\ exists(ws, args[c].workspaceId)
        /\ ws[args[c].workspaceId].admin # args[c].userId
        /\ ws[args[c].workspaceId].title # args[c].title
        /\ result[c].error = "WorkspaceNotFoundError"

\* C12: when the workspace deletion rejects inside deleteWorkspace, the call
\* resolves to an Err holding a DatabaseError without making another store
\* call, nothing stays staged, and the committed workspaces and form statuses
\* are those from before the call, whatever shouldDeleteForms is.
C12_DeletionFailureStopsCall ==
    \A c \in Slots :
        (args[c].op = "deleteWorkspace" /\ failedAt[c] = "deleteWorkspace") =>
            /\ pc[c] = "done"
            /\ result[c].kind = "err"
            /\ result[c].error = "DatabaseError"
            /\ ~tx[c].active
            /\ ~committed[c]
            /\ ws = before[c].ws
            /\ status = before[c].status

\* The deletion of an owned workspace that lists a form not yet archived
\* rejected, with shouldDeleteForms = true.
C12_Witness ==
    \E c \in Slots :
        /\ Done(c, "deleteWorkspace")
        /\ failedAt[c] = "deleteWorkspace"
        /\ args[c].shouldDeleteForms
        /\ Owned(ws, args[c].workspaceId, args[c].userId)
        /\ \E f \in FormsOf(workspaceToDelete[c]) : status[f] # "ARCHIVED"

C14_DeleteOfUnownedIsNoOp ==
    \A c \in Slots :
        (Done(c, "deleteWorkspace") /\ failedAt[c] = "none"
         /\ ~Owned(before[c].ws, args[c].workspaceId, args[c].userId)) =>
            /\ result[c] = Ok("undefined", NoDoc, {})
            /\ ws = before[c].ws
            /\ status = before[c].status

\* The workspace exists under another admin and lists a form that is not
\* archived; shouldDeleteForms = true.
C14_Witness ==
    \E c \in Slots :
        /\ Succeeded(c, "deleteWorkspace")
        /\ args[c].shouldDeleteForms
        /\ exists(ws, args[c].workspaceId)
        /\ ws[args[c].workspaceId].admin # args[c].userId
        /\ \E f \in FormsOf(ws[args[c].workspaceId]) : status[f] # "ARCHIVED"
        /\ committed[c]

\* Workspaces that the call in slot c removed.
Removed(c) == {w \in WsIds : before[c].ws[w].exists /\ ~ws[w].exists}

\* C15: the count-based deleteWorkspace, when the store call does not reject,
\* delivers an Err holding a WorkspaceNotFoundError exactly when no document
\* was removed for (workspaceId, admin = userId), and otherwise an Ok carrying
\* the number of documents removed, which is at least 1.
C15_CountBasedDelete ==
    \A c \in Slots :
        (Done(c, "deleteWorkspaceCount") /\ failedAt[c] = "none") =>
            /\ Removed(c) =
                    {w \in {args[c].workspaceId} :
                        Owned(before[c].ws, w, args[c].userId)}
            /\ IF Cardinality(Removed(c)) = 0
               THEN result[c] = Err("WorkspaceNotFoundError")
               ELSE /\ result[c].kind = "ok"
                    /\ result[c].count = Cardinality(Removed(c))
                    /\ result[c].count >= 1

\* A call aimed at a workspace of another admin: nothing removed, not found.
C15_Witness ==
    \E c \in Slots :
        /\ Done(c, "deleteWorkspaceCount")
        /\ failedAt[c] = "none"
        /\ exists(ws, args[c].workspaceId)
        /\ Removed(c) = {}
        /\ result[c].error = "WorkspaceNotFoundError"

\* The call in slot c, which had resolved createWorkspace to an Ok, is
\* followed in this step by a getWorkspaces call that resolves to an Ok.
GetsAfterCreate(c) ==
    /\ Succeeded(c, "createWorkspace")
    /\ started' = started + 1
    /\ pc'[c] = "done"
    /\ args'[c].op = "getWorkspaces"
    /\ result'[c].kind = "ok"

\* C16: the workspace a successful createWorkspace(userId, title) returned has
\* that title, admin = userId and no formIds, and a getWorkspaces call that
\* follows lists it when made for userId and does not when made for another user.
C16_CreatedWorkspaceIsListed ==
    [][\A c \in Slots :
        GetsAfterCreate(c) =>
            /\ result[c].doc.exists
            /\ result[c].doc.title = args[c].title
            /\ result[c].doc.admin = args[c].userId
            /\ result[c].doc.formIds = <<>>
            /\ (args'[c].userId = args[c].userId) <=>
                    (result[c].doc \in result'[c].list)]_vars

\* getWorkspaces listed the only workspace, just created in an empty store.
C16_Witness ==
    \E c \in Slots :
        /\ Succeeded(c, "getWorkspaces")
        /\ started = 2
        /\ allocated = 1
        /\ \E d \in result[c].list :
                d.id = "w1" /\ d.admin = args[c].userId /\ d.formIds = <<>>

\* This step is a checkWorkspaceExists call in slot c whose store call does
\* not reject.
ChecksExistence(c) ==
    /\ started' = started + 1
    /\ pc'[c] = "done"
    /\ args'[c].op = "checkWorkspaceExists"
    /\ failedAt'[c] = "none"

\* C17: checkWorkspaceExists delivers Ok(true) exactly when some workspace has
\* the id, whoever its admin is, and an Err holding a WorkspaceNotFoundError
\* otherwise; it changes no workspace and no form, and made again on the same
\* id right after it delivers the same result.
C17_CheckWorkspaceExists ==
    [][\A c \in Slots :
        ChecksExistence(c) =>
            /\ result'[c] = IF exists(ws, args'[c].workspaceId)
                            THEN Ok("true", NoDoc, {})
                            ELSE Err("WorkspaceNotFoundError")
            /\ ws' = ws
            /\ status' = status
            /\ allocated' = allocated
            /\ (Done(c, "checkWorkspaceExists") /\ failedAt[c] = "none"
                /\ args[c].workspaceId = args'[c].workspaceId) =>
                    result'[c] = result[c]]_vars

\* The second of two calls found a workspace whose admin is u2.
C17_Witness ==
    \E c \in Slots :
        /\ Succeeded(c, "checkWorkspaceExists")
        /\ started = 2
        /\ ws[args[c].workspaceId].admin = "u2"
        /\ ws = before[c].ws

\* C18: when the store call of createWorkspace or updateWorkspaceTitle
\* rejects, the call delivers an Err holding a DatabaseValidationError if the
\* store rejected with a schema validation error and a DatabaseError if it
\* rejected with any other error, and every workspace is as before the call.
C18_ValidationAndDatabaseFaults ==
    \A c \in Slots :
        (pc[c] = "done" /\ args[c].op \in {"createWorkspace", "updateWorkspaceTitle"}
         /\ failedAt[c] # "none") =>
            /\ result[c].kind = "err"
            /\ result[c].cause \in ValidatedStoreErrors
            /\ result[c].error = IF result[c].cause = "ValidationError"
                                 THEN "DatabaseValidationError"
                                 ELSE "DatabaseError"
            /\ ws = before[c].ws
            /\ status = before[c].status

\* The store rejected the new title of an owned workspace with a validation error.
C18_Witness ==
    \E c \in Slots :
        /\ Done(c, "updateWorkspaceTitle")
        /\ result[c].cause = "ValidationError"
        /\ result[c].error = "DatabaseValidationError"
        /\ Owned(ws, args[c].workspaceId, args[c].userId)
        /\ ws[args[c].workspaceId].title # args[c].title

\* The collection with every workspace of an admin other than u taken away.
WithoutOthers(wsv, u) ==
    [w \in WsIds |-> IF wsv[w].exists /\ wsv[w].admin # u THEN NoDoc ELSE wsv[w]]

\* C19: when the caller is not the admin of the workspace it names, what
\* updateWorkspaceTitle and verifyWorkspaceAdmin deliver is what they deliver
\* on the store with every workspace of the other admins taken away: a
\* workspace of another admin and a missing workspace are told apart by neither.
C19_OtherAdminsWorkspaceLooksMissing ==
    \A c \in Slots :
        (pc[c] = "done" /\ failedAt[c] = "none"
         /\ ~Owned(before[c].ws, args[c].workspaceId, args[c].userId)) =>
            /\ Done(c, "updateWorkspaceTitle") =>
                    result[c] = updateWorkspaceTitle(
                                    WithoutOthers(before[c].ws, args[c].userId),
                                    args[c].workspaceId, args[c].title, args[c].userId)
            /\ Done(c, "verifyWorkspaceAdmin") =>
                    result[c] = verifyWorkspaceAdmin(
                                    WithoutOthers(before[c].ws, args[c].userId),
                                    args[c].workspaceId, args[c].userId)

\* A caller asked verifyWorkspaceAdmin about a workspace of another admin.
C19_Witness ==
    \E c \in Slots :
        /\ Done(c, "verifyWorkspaceAdmin")
        /\ failedAt[c] = "none"
        /\ exists(before[c].ws, args[c].workspaceId)
        /\ before[c].ws[args[c].workspaceId].admin # args[c].userId
        /\ result[c].kind = "err"

\* C20: from the start of a call made with user u on, every workspace that
\* had an admin other than u when the call started exists with the title and
\* the formIds it had: updateWorkspaceTitle, both deleteWorkspace revisions
\* and moveForms with a named and with an empty source leave it alone.
C20_OnlyTheAdminChangesAWorkspace ==
    \A c \in Slots :
        pc[c] # "idle" =>
            \A w \in WsIds :
                (before[c].ws[w].exists /\ before[c].ws[w].admin # args[c].userId) =>
                    /\ ws[w].exists
                    /\ ws[w].admin = before[c].ws[w].admin
                    /\ ws[w].title = before[c].ws[w].title
                    /\ ws[w].formIds = before[c].ws[w].formIds

\* A committed moveForms whose destination is a workspace of another admin
\* that holds none of the moved forms.
C20_Witness ==
    \E c \in Slots :
        /\ Succeeded(c, "moveForms")
        /\ committed[c]
        /\ exists(before[c].ws, args[c].destWorkspaceId)
        /\ before[c].ws[args[c].destWorkspaceId].admin # args[c].userId
        /\ SeqToSet(args[c].formIds) \cap
                SeqToSet(before[c].ws[args[c].destWorkspaceId].formIds) = {}

\* C21: every existing workspace has one admin, a user; a step never changes
\* the admin of a workspace that exists before and after it, and a workspace
\* comes into existence only by a createWorkspace call, with the userId of
\* that call as its admin.
C21_AdminSetAtCreationOnly ==
    [][\A w \in WsIds :
        /\ ws'[w].exists => ws'[w].admin \in Users
        /\ (ws[w].exists /\ ws'[w].exists) => ws'[w].admin = ws[w].admin
        /\ (~ws[w].exists /\ ws'[w].exists) =>
                \E c \in Slots :
                    /\ started' = started + 1
                    /\ Succeeded(c, "createWorkspace")'
                    /\ result'[c].doc = ws'[w]
                    /\ ws'[w].admin = args'[c].userId]_vars

\* A workspace created in this behaviour had its title changed by its admin.
C21_Witness ==
    \E c \in Slots :
        /\ allocated = 1
        /\ Succeeded(c, "updateWorkspaceTitle")
        /\ args[c].workspaceId = "w1"
        /\ ws["w1"].admin = args[c].userId
        /\ ws["w1"].title # before[c].ws["w1"].title

\* A deleteWorkspace call with shouldDeleteForms = true for a workspace of
\* the caller, in which no store call rejected.
CascadeDone(c) ==
    /\ Done(c, "deleteWorkspace")
    /\ args[c].shouldDeleteForms
    /\ failedAt[c] = "none"
    /\ Owned(before[c].ws, args[c].workspaceId, args[c].userId)

\* C22: a form archived in the committed store is archived after every step,
\* and a deleteWorkspace call with shouldDeleteForms = true in which no store
\* call rejected delivers an Ok and leaves every form of the workspace
\* archived, those archived before the call included.
C22_ArchivalOneDirectional ==
    [][/\ \A f \in FormIds : status[f] = "ARCHIVED" => status'[f] = "ARCHIVED"
       /\ \A c \in Slots :
            CascadeDone(c)' =>
                /\ result'[c].kind = "ok"
                /\ \A f \in FormsOf(before'[c].ws[args'[c].workspaceId]) :
                        status'[f] = "ARCHIVED"]_vars

\* A workspace listing an archived form and a form not archived was deleted
\* with its forms.
C22_Witness ==
    \E c \in Slots :
        /\ CascadeDone(c)
        /\ committed[c]
        /\ \E f \in FormsOf(before[c].ws[args[c].workspaceId]) :
                before[c].status[f] = "ARCHIVED" /\ status[f] = "ARCHIVED"
        /\ \E f \in FormsOf(before[c].ws[args[c].workspaceId]) :
                before[c].status[f] # "ARCHIVED" /\ status[f] = "ARCHIVED"

\* C23: a call waits for the deletion only with the workspace read and
\* nothing written, for the archival only with the deletion staged and no
\* form status written, for the addition only with the removal staged, for
\* the commit of a move only with removal and addition staged, and for the
\* read of the destination only with the transaction committed and the
\* session ended; a call in which a store call rejected waits for nothing more.
C23_StepsInOrder ==
    \A c \in Slots :
        LET a == args[c]
            b == before[c]
        IN  /\ pc[c] = "findOne" =>
                /\ workspaceToDelete[c] = NoDoc
                /\ ~tx[c].active
            /\ pc[c] = "deleteWorkspace" =>
                /\ workspaceToDelete[c] = findOne(b.ws, a.workspaceId, a.userId)
                /\ ~tx[c].active
            /\ pc[c] = "archiveForms" =>
                /\ tx[c].active
                /\ tx[c].ws = deleteWorkspaceDoc(b.ws, a.workspaceId, a.userId)
                /\ tx[c].status = b.status
            /\ pc[c] = "removeFormIds" => ~tx[c].active
            /\ pc[c] = "addFormIds" =>
                /\ tx[c].active
                /\ tx[c].ws = removeStep(b.ws, a)
            /\ (pc[c] = "commit" /\ a.op = "moveForms") =>
                tx[c].ws = moveFormsTransaction(b.ws, a)
            /\ pc[c] = "getWorkspace" =>
                /\ committed[c]
                /\ session[c] = "ended"
                /\ ws = moveFormsTransaction(b.ws, a)
            /\ pc[c] \in {"startSession", "findOne", "deleteWorkspace", "archiveForms",
                          "removeFormIds", "addFormIds", "commit"} =>
                (~committed[c] /\ ws = b.ws /\ status = b.status)
            /\ failedAt[c] # "none" => pc[c] = "done"

\* A call waits for the archival with the deletion of its workspace staged
\* and not yet committed.
C23_Witness ==
    \E c \in Slots :
        /\ pc[c] = "archiveForms"
        /\ exists(ws, args[c].workspaceId)
        /\ ~exists(tx[c].ws, args[c].workspaceId)
        /\ workspaceToDelete[c].formIds # <<>>

\* C24: a call opens its session once, has it open at every store call of
\* its transaction body, and every such store call works on the view of the
\* call's transaction: the workspace whose formIds deleteWorkspace captured is
\* the workspace that the transaction sees when it deletes it.
C24_AllAccessInOneSession ==
    [][\A c \in Slots :
        /\ (session'[c] = "open" /\ session[c] # "open") =>
                (pc[c] = "startSession" /\ session[c] = "none")
        /\ pc[c] \in {"findOne", "commit"} \cup WriteSteps => session[c] = "open"
        /\ (pc[c] = "deleteWorkspace" /\ pc'[c] \in {"archiveForms", "commit"}) =>
                workspaceToDelete[c] =
                    findOne(TxView(c).ws, args[c].workspaceId, args[c].userId)]_vars

\* C25: when a deleteWorkspace call with shouldDeleteForms = true commits
\* while moveForms calls of the same admin interleave with it, the forms it
\* archives are the forms the workspace listed when it was deleted: each of
\* them is archived, and no form outside them has its status changed.
C25_ArchivedAreFormsAtDeletion ==
    [][\A c \in Slots :
        CommitsCascade(c) =>
            \A w \in WsIds :
                (ws[w].exists /\ ~ws'[w].exists) =>
                    /\ FormsOf(ws[w]) \subseteq {f \in FormIds : status'[f] = "ARCHIVED"}
                    /\ ChangedForms(status, status') \subseteq FormsOf(ws[w])
                    /\ FormsOf(workspaceToDelete[c]) = FormsOf(ws[w])]_vars

\* C26: after a successful moveForms every form id that some workspace of
\* userId listed before the call is listed by some workspace of userId, and
\* every form id of formIds is listed by the workspace destWorkspaceId,
\* whether or not that workspace exists with userId as its admin.
C26_MoveLosesNoForm ==
    \A c \in Slots :
        Succeeded(c, "moveForms") =>
            /\ \A f \in FormIds :
                    Holders(before[c].ws, args[c].userId, f) # {} =>
                        Holders(ws, args[c].userId, f) # {}
            /\ \A f \in SeqToSet(args[c].formIds) :
                    f \in FormsOf(ws[args[c].destWorkspaceId])

\* Every form id is listed by at most one workspace of each admin.
UniquePerAdmin(wsv) ==
    \A u \in Users, f \in FormIds : Cardinality(Holders(wsv, u, f)) <= 1

\* C27: when every form id is listed by at most one workspace of each admin,
\* it still is after the commit of a moveForms call, with a named or an empty
\* source and whatever source the caller names.
C27_MoveKeepsOneWorkspacePerForm ==
    [][\A c \in Slots :
        (pc[c] = "commit" /\ pc'[c] = "endSession" /\ args[c].op = "moveForms"
         /\ UniquePerAdmin(ws)) => UniquePerAdmin(ws')]_vars

\* The faults transformMongoError makes of store errors.
TypedFaults == {transformMongoError(e) : e \in ValidatedStoreErrors}

\* C28: the error of every Err that deleteWorkspace or moveForms delivers is
\* a fault made by transformMongoError, whichever store call rejected:
\* startSession, a call of the transaction body, the commit, endSession or
\* the read after the commit; it is never the store's own error.
C28_ErrorsAreTypedFaults ==
    \A c \in Slots :
        (pc[c] = "done" /\ args[c].op \in {"deleteWorkspace", "moveForms"}
         /\ result[c].kind = "err") =>
            /\ result[c].error \in TypedFaults
            /\ result[c].error \notin StoreErrors

\* The form ids of a list that are not among ids, in their order.
Kept(s, ids) == SelectSeq(s, LAMBDA x : x \notin SeqToSet(ids))

\* C29: from its start on, whether it succeeds or not, a moveForms call
\* leaves every workspace in existence with its id, title and admin, creates
\* none, leaves the form ids outside formIds in every list as they were,
\* leaves the workspaces of other admins and, with a named source, every
\* workspace other than source and destination as they were, and changes no
\* form status.
C29_MoveFrame ==
    \A c \in Slots :
        (pc[c] # "idle" /\ args[c].op = "moveForms") =>
            LET a == args[c]
                b == before[c]
            IN  /\ status = b.status
                /\ \A w \in WsIds :
                    /\ ws[w].exists = b.ws[w].exists
                    /\ ws[w].id = b.ws[w].id
                    /\ ws[w].title = b.ws[w].title
                    /\ ws[w].admin = b.ws[w].admin
                    /\ Kept(ws[w].formIds, a.formIds) = Kept(b.ws[w].formIds, a.formIds)
                    /\ ws[w].admin # a.userId => ws[w] = b.ws[w]
                    /\ (a.sourceWorkspaceId # ""
                        /\ w \notin {a.sourceWorkspaceId, a.destWorkspaceId}) =>
                            ws[w] = b.ws[w]

\* A committed move from a named source that keeps a form id outside formIds,
\* while a workspace that is neither source nor destination lists a moved
\* form id.
C29_Witness ==
    \E c \in Slots :
        /\ NamedMove(c)
        /\ ws # before[c].ws
        /\ Kept(ws[args[c].sourceWorkspaceId].formIds, args[c].formIds) # <<>>
        /\ \E w \in WsIds \ {args[c].sourceWorkspaceId, args[c].destWorkspaceId} :
                /\ exists(ws, w)
                /\ FormsOf(ws[w]) \cap SeqToSet(args[c].formIds) # {}

\* A successful moveForms to a workspace of the caller that listed every
\* form id of formIds before the call, with that workspace as the source or
\* with the empty source.
MoveOntoItself(c) ==
    /\ Succeeded(c, "moveForms")
    /\ Owned(before[c].ws, args[c].destWorkspaceId, args[c].userId)
    /\ SeqToSet(args[c].formIds) \subseteq FormsOf(before[c].ws[args[c].destWorkspaceId])
    /\ args[c].sourceWorkspaceId \in {args[c].destWorkspaceId, ""}

\* C30: after a successful moveForms to a destination that already listed
\* the form ids, named as the source too or with the empty source, the
\* destination lists each form id of formIds exactly once and the workspace
\* delivered is the destination as stored.
C30_MoveOntoItself ==
    \A c \in Slots :
        MoveOntoItself(c) =>
            /\ \A f \in SeqToSet(args[c].formIds) :
                    Occurrences(ws[args[c].destWorkspaceId].formIds, f) = 1
            /\ result[c].payload = "doc"
            /\ result[c].doc = ws[args[c].destWorkspaceId]

\* The destination was named as the source and lists the moved form id after
\* a form id that stayed.
C30_Witness ==
    \E c \in Slots :
        /\ MoveOntoItself(c)
        /\ args[c].sourceWorkspaceId = args[c].destWorkspaceId
        /\ ws[args[c].destWorkspaceId] # before[c].ws[args[c].destWorkspaceId]
        /\ result[c].doc.formIds = <<"f2", "f1">>

====
